---- MODULE Spec2Model ----
(***************************************************************************)
(* Model of fs/vfs.go of eggos: the descriptor table (inodes), the syscall *)
(* dispatcher (fscall and the directly registered handlers) and the        *)
(* fileHelper stream wrapper.                                              *)
(*                                                                         *)
(* Handles are 0-based as in the source: handle fd is inodes[fd + 1] of    *)
(* the sequence below.  An *Inode is an index into heap.                   *)
(***************************************************************************)
EXTENDS Integers, Sequences, FiniteSets, TLC

VARIABLES inodes, heap, files, nextSid, closed, live, booted, crashed, last

vars == <<inodes, heap, files, nextSid, closed, live, booted, crashed, last>>

---------------------------------------------------------------------------
(* Bounds of the model *)

\* longest descriptor table explored
MaxInodes == 6
\* number of stream objects ever created
MaxStreams == 5
\* longest buffer handed to read, write and random
MaxLen == 1
\* width of a machine word (uintptr and int have the same width)
WordBits == 8
\* streams created, streams closed and entries leaked in the runs of Spec
MaxChurn == 5

---------------------------------------------------------------------------
(* Values *)

NIL == "nil"

\* the Fd of a released entry; also the descriptor of a request that has none
NoFd == -1

WordMod == 2 ^ WordBits

\* syscall.Errno values used by the file
ENOENT == 2
EIO == 5
EBADF == 9
EINVAL == 22
EROFS == 30

Paths == {"/etc", "/tmp"}

\* errno of an error value; the backend's errors are Errno values except
\* its not-exist error, which sysOpen and sysFstatat64 translate
Code(e) ==
    CASE e = "ENOENT" -> ENOENT
      [] e = "EIO" -> EIO
      [] e = "EBADF" -> EBADF
      [] e = "EINVAL" -> EINVAL
      [] e = "EROFS" -> EROFS

\* int(w) of a uintptr: two's complement reinterpretation
ToInt(w) == IF w >= WordMod \div 2 THEN w - WordMod ELSE w

\* uintptr(n) of an int
ToWord(n) == n % WordMod

\* isyscall.Errno(code): the negated code as a word
Errno(code) == (WordMod - code) % WordMod

\* isyscall.Error(err)
Error(e) == IF e = NIL THEN 0 ELSE Errno(Code(e))

\* the argument words a descriptor argument is drawn from
FdWords == (0 .. MaxInodes) \cup {WordMod - 1}

\* what the result word may hold when the request is dispatched
RetBefore == {0, 3}

---------------------------------------------------------------------------
(* Streams *)

\* the nil io.ReadWriteCloser
NoFile ==
    [sid |-> 0, kind |-> "nil", r |-> FALSE, w |-> FALSE, c |-> FALSE,
     ctl |-> FALSE]

\* NewFile(r, w, c): a fileHelper; r, w, c tell which halves are non-nil,
\* ctl whether the endpoint behind it implements Ioctler
NewFile(sid, r, w, c, ctl) ==
    [sid |-> sid, kind |-> "helper", r |-> r, w |-> w, c |-> c, ctl |-> ctl]

\* a file of the mount root (afero.File): it has Stat and no Ioctl
AferoFile(sid) ==
    [sid |-> sid, kind |-> "afero", r |-> TRUE, w |-> TRUE, c |-> TRUE,
     ctl |-> FALSE]

\* a stream another kernel package binds with AllocFileNode: an
\* io.ReadWriteCloser that is no afero.File and implements Ioctler
OtherFile(sid) ==
    [sid |-> sid, kind |-> "other", r |-> TRUE, w |-> TRUE, c |-> TRUE,
     ctl |-> TRUE]

\* what a Read of the endpoint itself may return: n bytes and an error
ReadReturns == {[n |-> n, err |-> e] : n \in 0 .. MaxLen, e \in {NIL, "EOF", "EIO"}}

\* what a Write of the endpoint itself may return
WriteReturns == {[n |-> n, err |-> e] : n \in 0 .. MaxLen, e \in {NIL, "EIO"}}

\* what Close, Stat, Ioctl of the endpoint itself, and the mount root, may return
IoErrs == {NIL, "EIO"}

\* fileHelper.Read, or the Read of another stream
FileRead(f) ==
    IF f.kind = "helper" /\ ~f.r THEN {[n |-> 0, err |-> "EINVAL"]}
    ELSE ReadReturns

\* fileHelper.Write, or the Write of another stream
FileWrite(f) ==
    IF f.kind = "helper" /\ ~f.w THEN {[n |-> 0, err |-> "EROFS"]}
    ELSE WriteReturns

\* fileHelper.Close, or the Close of another stream
FileClose(f) ==
    IF f.kind = "helper" /\ ~f.c THEN {"EINVAL"} ELSE IoErrs

\* fileHelper.Ioctl: x is r.r if that is non-nil, else r.w
FileIoctl(f) ==
    IF (f.r \/ f.w) /\ f.ctl THEN IoErrs ELSE {"EBADF"}

---------------------------------------------------------------------------
(* Descriptor table *)

Entry(tbl, hp, fd) == hp[tbl[fd + 1]]

Min(S) == CHOOSE x \in S : \A y \in S : x <= y

\* the scan of AllocInode: fd and ni as the loop leaves them
ScanInodes(tbl, hp) ==
    LET free == {i \in 0 .. Len(tbl) - 1 : ~Entry(tbl, hp, i).inuse}
    IN IF free = {} THEN [fd |-> 0, ni |-> 0]
       ELSE [fd |-> Min(free), ni |-> tbl[Min(free) + 1]]

\* the append branch of AllocInode
AppendInode(tbl, hp) ==
    [fd |-> Len(tbl), ni |-> Len(hp) + 1,
     inodes |-> Append(tbl, Len(hp) + 1),
     heap |-> Append(hp, [File |-> NoFile, Fd |-> Len(tbl), inuse |-> TRUE])]

\* the reuse branch of AllocInode
ReuseInode(tbl, hp, fd, ni) ==
    [fd |-> fd, ni |-> ni, inodes |-> tbl,
     heap |-> [hp EXCEPT ![ni] = [@ EXCEPT !.inuse = TRUE, !.Fd = fd]]]

\* AllocInode with the scan switched off
AllocInodeNoReuse(tbl, hp) == AppendInode(tbl, hp)

\* AllocInode deciding "found" by the entry instead of by fd
AllocInodeFoundFlag(tbl, hp) ==
    LET s == ScanInodes(tbl, hp)
    IN IF s.ni = 0 THEN AppendInode(tbl, hp)
       ELSE ReuseInode(tbl, hp, s.fd, s.ni)

\* AllocInode with the scan's test inverted
AllocInodeInverted(tbl, hp) ==
    LET used == {i \in 0 .. Len(tbl) - 1 : Entry(tbl, hp, i).inuse}
    IN IF used = {} \/ Min(used) = 0 THEN AppendInode(tbl, hp)
       ELSE ReuseInode(tbl, hp, Min(used), tbl[Min(used) + 1])

AllocInode(tbl, hp) ==
    LET s == ScanInodes(tbl, hp)
    IN IF s.fd = 0 THEN AppendInode(tbl, hp)
       ELSE ReuseInode(tbl, hp, s.fd, s.ni)

\* AllocFileNode(r)
AllocFileNode(tbl, hp, r) ==
    LET a == AllocInode(tbl, hp)
    IN [a EXCEPT !.heap = [a.heap EXCEPT ![a.ni] = [@ EXCEPT !.File = r]]]

\* Release leaving the Fd of the entry as it was
ReleaseKeepsFd(hp, ni) ==
    [hp EXCEPT ![ni] = [@ EXCEPT !.File = NoFile, !.inuse = FALSE]]

\* Inode.Release on the object ni
Release(hp, ni) ==
    [hp EXCEPT ![ni] = [File |-> NoFile, Fd |-> NoFd, inuse |-> FALSE]]

\* GetInode without the test of inuse
GetInodeIgnoresInuse(tbl, hp, fd) ==
    IF fd >= Len(tbl) THEN [ni |-> 0, err |-> "EBADF"]
    ELSE IF fd < 0 THEN [ni |-> 0, err |-> "PANIC"]
    ELSE [ni |-> tbl[fd + 1], err |-> NIL]

\* GetInode(fd): indexing inodes with a negative fd panics
GetInode(tbl, hp, fd) ==
    IF fd >= Len(tbl) THEN [ni |-> 0, err |-> "EBADF"]
    ELSE IF fd < 0 THEN [ni |-> 0, err |-> "PANIC"]
    ELSE IF ~Entry(tbl, hp, fd).inuse THEN [ni |-> 0, err |-> "EBADF"]
    ELSE [ni |-> tbl[fd + 1], err |-> NIL]

---------------------------------------------------------------------------
(* Requests *)

\* an isyscall.Request as the trap layer hands it over (Ret holds ret0),
\* together with a record of what the handler did with it
Req(op, fd, ret0) ==
    [op |-> op, fd |-> fd, Ret |-> ret0, wrote |-> FALSE, done |-> 0,
     late |-> FALSE, panicked |-> FALSE, allocs |-> <<>>, call |-> "none",
     sid |-> 0, serr |-> NIL, n |-> 0, buf |-> FALSE, path |-> NIL]

\* c.Ret = v
SetRet(r, v) ==
    [r EXCEPT !.Ret = v, !.wrote = TRUE, !.late = r.late \/ r.done > 0]

\* c.Done()
Done(r) == [r EXCEPT !.done = r.done + 1]

\* the tail of fscall: encode the error if there is one, then Done
Finish(r, err) == Done(IF err # NIL THEN SetRet(r, Error(err)) ELSE r)

\* the stream call a handler made and what it returned
Called(r, call, f, err, n) ==
    [r EXCEPT !.call = call, !.sid = f.sid, !.serr = err, !.n = n]

SyscallOps == {"open", "read", "write", "close", "fstat", "ioctl", "fcntl",
               "fstatat", "uname", "random"}

\* sysRead without the io.EOF case: end of stream is an I/O error
SysReadEofIsError(rd) ==
    CASE rd.n # 0 -> [n |-> rd.n, err |-> NIL]
      [] rd.n = 0 /\ rd.err = "EOF" -> [n |-> 0, err |-> "EIO"]
      [] OTHER -> [n |-> rd.n, err |-> rd.err]

\* sysRead's translation of what the stream returned
SysRead(rd) ==
    CASE rd.n # 0 -> [n |-> rd.n, err |-> NIL]
      [] rd.n = 0 /\ rd.err = "EOF" -> [n |-> 0, err |-> NIL]
      [] rd.n = 0 /\ rd.err \notin {"EOF", NIL} -> [n |-> 0, err |-> rd.err]
      [] OTHER -> [n |-> rd.n, err |-> rd.err]

\* sysWrite reporting the stream's error whenever there is one
SysWriteErrorFirst(wr) ==
    IF wr.err # NIL THEN [n |-> 0, err |-> wr.err] ELSE [n |-> wr.n, err |-> NIL]

\* sysWrite's translation of what the stream returned
SysWrite(wr) ==
    IF wr.n # 0 THEN [n |-> wr.n, err |-> NIL] ELSE [n |-> 0, err |-> wr.err]

\* sysStat: the errors it may return, whether it filled the Stat_t and
\* whether it called the file's Stat
SysStat(f) ==
    IF f.kind # "afero"
    THEN {[err |-> "EINVAL", buf |-> FALSE, called |-> FALSE]}
    ELSE {[err |-> e, buf |-> e = NIL, called |-> TRUE] : e \in IoErrs}

\* sysIoctl: the errors it may return and whether it called the stream's Ioctl
SysIoctl(f) ==
    CASE f.kind = "helper" -> {[err |-> e, called |-> TRUE] : e \in FileIoctl(f)}
      [] f.kind # "helper" /\ f.ctl -> {[err |-> e, called |-> TRUE] : e \in IoErrs}
      [] OTHER -> {[err |-> "EINVAL", called |-> FALSE]}

\* what Root.OpenFile and Root.Stat may answer for a path
Backend(fs, path, create) ==
    IF path \in fs \/ create THEN IoErrs ELSE {"ErrNotExist"}

\* the mount root's not-exist error handed on as an I/O error
PathErrPassthrough(e) == IF e = "ErrNotExist" THEN "EIO" ELSE e

\* the translation of the mount root's error in sysOpen and sysFstatat64
PathErr(e) == IF e = "ErrNotExist" THEN "ENOENT" ELSE e

---------------------------------------------------------------------------
(* Initial state: the package's variables before Init() *)

Init ==
    /\ inodes = <<>>
    /\ heap = <<>>
    /\ files = {}
    /\ nextSid = 1
    /\ closed = {}
    /\ live = {}
    /\ booted = FALSE
    /\ crashed = FALSE
    /\ last = Req("none", NoFd, 0)

\* a runtime panic inside a handler: what the handler had not yet done does
\* not happen, Done() included, and the kernel stops
Panic(r) ==
    /\ last' = [r EXCEPT !.panicked = TRUE]
    /\ crashed' = TRUE
    /\ UNCHANGED <<inodes, heap, files, nextSid, closed, live, booted>>

\* a handler that changes nothing but the request
Answer(r) ==
    /\ last' = r
    /\ UNCHANGED <<inodes, heap, files, nextSid, closed, live, booted, crashed>>

\* fscall when GetInode did not return an entry
ResolveFailed(r, g) ==
    IF g.err = "PANIC" THEN Panic(r) ELSE Answer(Done(SetRet(r, Error(g.err))))

\* Init(): vfsInit (four AllocFileNode calls, then etcInit), then sysInit.
\* ctl: whether the console implements Ioctler
Boot ==
    /\ ~booted /\ ~crashed
    /\ \E ctl \in BOOLEAN :
        LET a0 == AllocFileNode(inodes, heap,
                                NewFile(nextSid, TRUE, FALSE, FALSE, ctl))
            a1 == AllocFileNode(a0.inodes, a0.heap,
                                NewFile(nextSid + 1, FALSE, TRUE, FALSE, ctl))
            a2 == AllocFileNode(a1.inodes, a1.heap,
                                NewFile(nextSid + 2, FALSE, TRUE, FALSE, ctl))
            a3 == AllocFileNode(a2.inodes, a2.heap,
                                NewFile(nextSid + 3, FALSE, FALSE, FALSE, FALSE))
        IN /\ inodes' = a3.inodes
           /\ heap' = a3.heap
           /\ live' = live \cup {a0.fd, a1.fd, a2.fd, a3.fd}
           /\ last' = [Req("Init", NoFd, 0) EXCEPT
                          !.allocs = <<a0.fd, a1.fd, a2.fd, a3.fd>>]
    /\ nextSid' = nextSid + 4
    /\ files' = files \cup {"/etc"}
    /\ booted' = TRUE
    /\ UNCHANGED <<closed, crashed>>

---------------------------------------------------------------------------
(* The exported operations, as other kernel packages call them *)

\* AllocFileNode(r) with a stream of the caller's own
CallAllocFileNode ==
    /\ booted /\ ~crashed
    /\ nextSid <= MaxStreams
    /\ LET a == AllocFileNode(inodes, heap, OtherFile(nextSid))
       IN /\ Len(a.inodes) <= MaxInodes
          /\ inodes' = a.inodes
          /\ heap' = a.heap
          /\ live' = live \cup {a.fd}
          /\ last' = [Req("AllocFileNode", NoFd, 0) EXCEPT !.allocs = <<a.fd>>]
    /\ nextSid' = nextSid + 1
    /\ UNCHANGED <<files, closed, booted, crashed>>

\* GetInode(fd)
CallGetInode(fd) ==
    /\ booted /\ ~crashed
    /\ LET g == GetInode(inodes, heap, fd)
           r == [Req("GetInode", fd, 0) EXCEPT
                    !.serr = g.err,
                    !.sid = IF g.err = NIL THEN heap[g.ni].File.sid ELSE 0]
       IN IF g.err = "PANIC" THEN Panic(r) ELSE Answer(r)

\* Mount(target, fs): on success the target is a path of the mount root
Mount(target) ==
    /\ booted /\ ~crashed
    /\ \E e \in IoErrs :
        /\ files' = IF e = NIL THEN files \cup {target} ELSE files
        /\ last' = [Req("Mount", NoFd, 0) EXCEPT !.serr = e, !.path = target]
    /\ UNCHANGED <<inodes, heap, nextSid, closed, live, booted, crashed>>

---------------------------------------------------------------------------
(* The handlers sysInit registers *)

\* SYS_OPENAT: fscall's open branch around sysOpen
Open(path, create, ret0) ==
    /\ booted /\ ~crashed
    /\ \E e \in Backend(files, path, create) :
        LET a == AllocInode(inodes, heap)
            r == [Req("open", NoFd, ret0) EXCEPT
                     !.allocs = <<a.fd>>, !.path = path, !.serr = e]
        IN /\ Len(a.inodes) <= MaxInodes
           /\ inodes' = a.inodes
           /\ live' = live \cup {a.fd}
           /\ IF e = NIL
              THEN /\ nextSid <= MaxStreams
                   /\ heap' = [a.heap EXCEPT
                                  ![a.ni] = [@ EXCEPT !.File = AferoFile(nextSid)]]
                   /\ nextSid' = nextSid + 1
                   /\ files' = files \cup {path}
                   /\ last' = Done(SetRet(r, ToWord(a.fd)))
              ELSE /\ heap' = a.heap
                   /\ UNCHANGED <<nextSid, files>>
                   /\ last' = Done(SetRet(r, Error(PathErr(e))))
    /\ UNCHANGED <<closed, booted, crashed>>

\* SYS_CLOSE: fscall around sysClose
Close(w, ret0) ==
    /\ booted /\ ~crashed
    /\ LET fd == ToInt(w)
           g == GetInode(inodes, heap, fd)
           r == Req("close", fd, ret0)
       IN IF g.err # NIL THEN ResolveFailed(r, g)
          ELSE LET f == heap[g.ni].File
               IN IF f = NoFile THEN Panic(r)
                  ELSE \E err \in FileClose(f) :
                         /\ heap' = Release(heap, g.ni)
                         /\ closed' = closed \cup {f.sid}
                         /\ live' = live \ {fd}
                         /\ last' = Finish(Called(r, "Close", f, err, 0), err)
                         /\ UNCHANGED <<inodes, files, nextSid, booted, crashed>>

\* SYS_READ: fscall around sysRead
Read(w, ret0) ==
    /\ booted /\ ~crashed
    /\ LET fd == ToInt(w)
           g == GetInode(inodes, heap, fd)
           r == Req("read", fd, ret0)
       IN IF g.err # NIL THEN ResolveFailed(r, g)
          ELSE LET f == heap[g.ni].File
               IN IF f = NoFile THEN Panic(r)
                  ELSE \E rd \in FileRead(f) :
                         Answer(Finish(SetRet(Called(r, "Read", f, rd.err, rd.n),
                                              ToWord(SysRead(rd).n)),
                                       SysRead(rd).err))

\* SYS_WRITE: fscall around sysWrite
Write(w, ret0) ==
    /\ booted /\ ~crashed
    /\ LET fd == ToInt(w)
           g == GetInode(inodes, heap, fd)
           r == Req("write", fd, ret0)
       IN IF g.err # NIL THEN ResolveFailed(r, g)
          ELSE LET f == heap[g.ni].File
               IN IF f = NoFile THEN Panic(r)
                  ELSE \E wr \in FileWrite(f) :
                         Answer(Finish(SetRet(Called(r, "Write", f, wr.err, wr.n),
                                              ToWord(SysWrite(wr).n)),
                                       SysWrite(wr).err))

\* SYS_FSTAT64: fscall around sysStat
Fstat(w, ret0) ==
    /\ booted /\ ~crashed
    /\ LET fd == ToInt(w)
           g == GetInode(inodes, heap, fd)
           r == Req("fstat", fd, ret0)
       IN IF g.err # NIL THEN ResolveFailed(r, g)
          ELSE LET f == heap[g.ni].File
               IN \E st \in SysStat(f) :
                    LET rc == IF st.called THEN Called(r, "Stat", f, st.err, 0)
                              ELSE r
                    IN Answer(Finish([rc EXCEPT !.buf = st.buf], st.err))

\* SYS_IOCTL: fscall around sysIoctl
Ioctl(w, ret0) ==
    /\ booted /\ ~crashed
    /\ LET fd == ToInt(w)
           g == GetInode(inodes, heap, fd)
           r == Req("ioctl", fd, ret0)
       IN IF g.err # NIL THEN ResolveFailed(r, g)
          ELSE LET f == heap[g.ni].File
               IN \E io \in SysIoctl(f) :
                    LET rc == IF io.called THEN Called(r, "Ioctl", f, io.err, 0)
                              ELSE r
                    IN Answer(Finish(rc, io.err))

\* sysFcntl registered through fscall: the descriptor is resolved first
FcntlResolving(w, ret0) ==
    /\ booted /\ ~crashed
    /\ LET fd == ToInt(w)
           g == GetInode(inodes, heap, fd)
           r == Req("fcntl", fd, ret0)
       IN IF g.err # NIL THEN ResolveFailed(r, g)
          ELSE Answer(Done(SetRet(r, 0)))

\* SYS_FCNTL and SYS_FCNTL64: sysFcntl
Fcntl(w, ret0) ==
    /\ booted /\ ~crashed
    /\ Answer(Done(SetRet(Req("fcntl", ToInt(w), ret0), 0)))

\* SYS_UNAME: sysUname
Uname(ret0) ==
    /\ booted /\ ~crashed
    /\ Answer(Done(SetRet([Req("uname", NoFd, ret0) EXCEPT !.buf = TRUE], 0)))

\* SYS_FSTATAT64: sysFstatat64
Fstatat(path, ret0) ==
    /\ booted /\ ~crashed
    /\ \E e \in Backend(files, path, FALSE) :
        LET r == [Req("fstatat", NoFd, ret0) EXCEPT !.path = path, !.serr = e]
        IN CASE e = "ErrNotExist" -> Answer(Done(SetRet(r, Errno(ENOENT))))
             [] e \notin {"ErrNotExist", NIL} -> Answer(Done(SetRet(r, Error(e))))
             [] OTHER -> Answer(Done(SetRet([r EXCEPT !.buf = TRUE], 0)))

\* syscall 355: sysRandom
Random(len, ret0) ==
    /\ booted /\ ~crashed
    /\ Answer(Done(SetRet([Req("random", NoFd, ret0) EXCEPT
                              !.buf = len > 0, !.n = len], ToWord(len))))

---------------------------------------------------------------------------
(* Specifications *)

\* entries in use that have no stream
Leaked(hp) == {i \in 1 .. Len(hp) : hp[i].inuse /\ hp[i].File = NoFile}

\* the number of streams created, streams closed and entries left without
\* a stream so far: it grows with every request that changes the table
Churn(hp, sid, cl) == (sid - 1) + Cardinality(cl) + Cardinality(Leaked(hp))

ChurnOk == Churn(heap', nextSid', closed') <= MaxChurn

\* every operation, over the tables a bounded number of table-changing
\* requests produce
Next ==
    \/ Boot /\ ChurnOk
    \/ CallAllocFileNode /\ ChurnOk
    \/ \E fd \in -1 .. MaxInodes : CallGetInode(fd) /\ ChurnOk
    \/ \E target \in Paths : Mount(target) /\ ChurnOk
    \/ \E path \in Paths, create \in BOOLEAN, ret0 \in RetBefore :
          Open(path, create, ret0) /\ ChurnOk
    \/ \E w \in FdWords, ret0 \in RetBefore : Close(w, ret0) /\ ChurnOk
    \/ \E w \in FdWords, ret0 \in RetBefore : Read(w, ret0) /\ ChurnOk
    \/ \E w \in FdWords, ret0 \in RetBefore : Write(w, ret0) /\ ChurnOk
    \/ \E w \in FdWords, ret0 \in RetBefore : Fstat(w, ret0) /\ ChurnOk
    \/ \E w \in FdWords, ret0 \in RetBefore : Ioctl(w, ret0) /\ ChurnOk
    \/ \E w \in FdWords, ret0 \in RetBefore : Fcntl(w, ret0) /\ ChurnOk
    \/ \E ret0 \in RetBefore : Uname(ret0) /\ ChurnOk
    \/ \E path \in Paths, ret0 \in RetBefore : Fstatat(path, ret0) /\ ChurnOk
    \/ \E len \in 0 .. MaxLen, ret0 \in RetBefore : Random(len, ret0) /\ ChurnOk

Spec == Init /\ [][Next]_vars

\* the operations that change the descriptor table, in any order and
\* without the bound on their number; the result word is 0 at dispatch
NextTable ==
    \/ Boot
    \/ CallAllocFileNode
    \/ \E path \in Paths, create \in BOOLEAN : Open(path, create, 0)
    \/ \E w \in FdWords : Close(w, 0)

SpecTable == Init /\ [][NextTable]_vars

---------------------------------------------------------------------------
(* Properties *)

\* handles whose entry is in use / not in use
InUse(tbl, hp) == {fd \in 0 .. Len(tbl) - 1 : Entry(tbl, hp, fd).inuse}
Free(tbl, hp) == {fd \in 0 .. Len(tbl) - 1 : ~Entry(tbl, hp, fd).inuse}

\* the steps that call AllocInode once
AllocOps == {"open", "AllocFileNode"}

\* the handlers that resolve a descriptor first
FdOps == {"read", "write", "close", "fstat", "ioctl"}

\* C1: an open request whose filesystem open fails returns the encoded
\* error and leaves the descriptor table as it was: same length, same
\* handles in use.
C1_FailedOpenAllocatesNothing ==
    [][(last'.op = "open" /\ last'.serr # NIL)
        => /\ last'.Ret = Error(PathErr(last'.serr))
           /\ Len(inodes') = Len(inodes)
           /\ InUse(inodes', heap') = InUse(inodes, heap)]_vars

\* C2: GetInode fails with EBADF for every handle that is negative, at or
\* beyond the table length, or not in use, without faulting, also when
\* fscall passes int(c.Args[0]); an entry it returns never carries the
\* stream of a released descriptor.
C2_BadHandleIsEBADF ==
    /\ (last.op = "GetInode" /\ last.fd \notin InUse(inodes, heap))
        => (last.serr = "EBADF" /\ ~last.panicked)
    /\ (last.op \in FdOps /\ last.fd < 0)
        => (~last.panicked /\ last.done = 1 /\ last.Ret = Errno(EBADF))
    /\ (last.op = "GetInode" /\ last.serr = NIL) => last.sid \notin closed

\* C3: AllocInode reuses the smallest free index >= 1 without growing the
\* table whenever there is one, and appends only when there is none, in
\* every reachable table, entry 0 released or not.
C3_FirstFreeAscending ==
    [][(last'.op \in AllocOps)
        => LET free == Free(inodes, heap) \ {0}
               fd == last'.allocs[1]
           IN IF free # {}
              THEN fd = Min(free) /\ Len(inodes') = Len(inodes)
              ELSE fd = Len(inodes) /\ Len(inodes') = Len(inodes) + 1]_vars

\* C4: in a table of N entries of which exactly one, k, is free (all N were
\* in use and k was released), AllocInode returns k and the table keeps its
\* length when k >= 1, and appends and returns N when k = 0.
C4_ReleaseThenAlloc ==
    [][(Cardinality(Free(inodes, heap)) = 1 /\ last'.op \in AllocOps)
        => LET k == Min(Free(inodes, heap))
               N == Len(inodes)
               fd == last'.allocs[1]
           IN IF k >= 1 THEN fd = k /\ Len(inodes') = N
              ELSE fd = N /\ Len(inodes') = N + 1]_vars

\* C4 witness: an allocation has just taken back the handle k >= 1 that was
\* the only free one, and the table is full again.
C4_Witness ==
    /\ last.op \in AllocOps
    /\ last.allocs[1] >= 1 /\ last.allocs[1] < Len(inodes) - 1
    /\ Free(inodes, heap) = {}
    /\ closed # {}

\* C5: AllocInode returns 0 only as the first call on the empty table, and
\* entry 0, once released, is never in use again.
C5_HandleZeroOnce ==
    [][/\ \A i \in DOMAIN last'.allocs :
            last'.allocs[i] = 0 => (Len(inodes) = 0 /\ i = 1)
       /\ (0 \in Free(inodes, heap)) => (0 \in Free(inodes', heap'))]_vars

\* C5 witness: entry 0 has been released and an allocation made since went
\* elsewhere.
C5_Witness ==
    /\ last.op \in AllocOps
    /\ 0 \in Free(inodes, heap)
    /\ last.allocs[1] # 0

\* C6: AllocInode never returns a handle that is held (returned and not
\* released since) or whose entry is in use; the held handles are the
\* handles in use and denote pairwise distinct entries.
C6_NoHandleTwice ==
    [][/\ \A i \in DOMAIN last'.allocs :
            /\ last'.allocs[i] \notin live
            /\ last'.allocs[i] \notin InUse(inodes, heap)
            /\ \A j \in DOMAIN last'.allocs :
                 j # i => last'.allocs[j] # last'.allocs[i]
       /\ live' = InUse(inodes', heap')
       /\ \A h1, h2 \in live' : h1 # h2 => inodes'[h1 + 1] # inodes'[h2 + 1]]_vars

\* C6 witness: an allocation has reused a released handle while other
\* handles are held.
C6_Witness ==
    /\ last.op \in AllocOps
    /\ last.allocs[1] < Len(inodes) - 1
    /\ last.allocs[1] \in live
    /\ Cardinality(live) >= 3

\* C7: a close request on a descriptor in use releases it and drops its
\* stream whatever the stream's Close returns, reports Close's error as the
\* encoded result, and leaves the handle failing with EBADF.
C7_CloseAlwaysReleases ==
    [][(last'.op = "close" /\ last'.fd \in InUse(inodes, heap))
        => /\ last'.fd \notin InUse(inodes', heap')
           /\ Entry(inodes', heap', last'.fd).File = NoFile
           /\ last'.done = 1
           /\ last'.serr # NIL => last'.Ret = Error(last'.serr)
           /\ GetInode(inodes', heap', last'.fd).err = "EBADF"]_vars

\* C8: on every path of every handler Done() fires exactly once and the
\* result word is not written after it.
C8_DoneExactlyOnce ==
    last.op \in SyscallOps => (last.done = 1 /\ ~last.late)

\* whether a stream has the capability sysStat / sysIoctl asks for
SupportsStat(f) == f.kind = "afero"
SupportsIoctl(f) == IF f.kind = "helper" THEN (f.r \/ f.w) /\ f.ctl ELSE f.ctl

\* C9: fstat (ioctl) on a descriptor in use whose stream has no stat
\* (ioctl) capability fails with EINVAL and leaves the output buffer alone,
\* the boot descriptors 0-3 included.
C9_NoCapabilityIsEINVAL ==
    /\ (/\ last.op = "fstat" /\ last.fd \in InUse(inodes, heap)
        /\ ~SupportsStat(Entry(inodes, heap, last.fd).File))
        => (last.Ret = Errno(EINVAL) /\ ~last.buf /\ last.done = 1)
    /\ (/\ last.op = "ioctl" /\ last.fd \in InUse(inodes, heap)
        /\ ~SupportsIoctl(Entry(inodes, heap, last.fd).File))
        => (last.Ret = Errno(EINVAL) /\ ~last.buf /\ last.done = 1)

\* C10: when a request has completed, its result word was written by the
\* handler on the path taken, so it does not depend on what the word held
\* at dispatch.
C10_ResultAlwaysWritten ==
    (last.op \in SyscallOps /\ last.done = 1) => last.wrote

\* the words that encode one of the file's error codes
ErrWords == {Errno(c) : c \in {ENOENT, EIO, EBADF, EINVAL, EROFS}}

\* C11: a read request whose stream Read returns 0 bytes with end-of-stream
\* completes with result 0; end-of-stream is never encoded as an error, and
\* the descriptor stays in use.
C11_EofReadsZero ==
    (last.op = "read" /\ last.call = "Read" /\ last.serr = "EOF")
        => /\ last.done = 1 /\ ~last.panicked
           /\ last.Ret = ToWord(last.n)
           /\ last.Ret \notin ErrWords
           /\ last.fd \in InUse(inodes, heap)

\* C11 witness: a read request on an exhausted stream has completed with 0.
C11_Witness ==
    /\ last.op = "read" /\ last.call = "Read"
    /\ last.serr = "EOF" /\ last.n = 0
    /\ last.Ret = 0 /\ last.wrote /\ last.done = 1

\* C12: a read, write, close, fstat or ioctl request whose handle is out of
\* range or not in use completes with encoded EBADF, calls no stream
\* operation and leaves the descriptor table as it was.
C12_ResolveFailureShortCircuits ==
    [][(last'.op \in FdOps /\ last'.fd \notin InUse(inodes, heap))
        => /\ last'.Ret = Errno(EBADF)
           /\ last'.done = 1 /\ ~last'.panicked
           /\ last'.call = "none"
           /\ UNCHANGED <<inodes, heap, closed, live>>]_vars

\* C13: Init leaves exactly the handles 0-3, in use, Fd equal to the index,
\* bound to stdin (read half only), stdout and stderr (write half only) and
\* a placeholder with neither half; the first open that succeeds after boot
\* (no stream bound or closed since) returns handle 4.
C13_BootTable ==
    [][/\ (last'.op = "Init")
            => /\ Len(inodes') = 4
               /\ \A fd \in 0 .. 3 :
                    LET e == Entry(inodes', heap', fd)
                    IN /\ e.inuse /\ e.Fd = fd
                       /\ e.File.kind = "helper"
                       /\ e.File.r = (fd = 0)
                       /\ e.File.w = (fd \in {1, 2})
       /\ (/\ booted /\ closed = {}
           /\ \A i \in 1 .. Len(heap) : heap[i].File.kind \in {"helper", "nil"}
           /\ last'.op = "open" /\ last'.serr = NIL)
            => last'.Ret = 4]_vars

\* C14: the table never gets shorter, the entry object at an index is never
\* replaced, every entry in use at index i has Fd = i and every released
\* entry has Fd = -1.
C14_AppendOnlyStable ==
    [][/\ Len(inodes') >= Len(inodes)
       /\ \A i \in 1 .. Len(inodes) : inodes'[i] = inodes[i]
       /\ \A fd \in 0 .. Len(inodes') - 1 :
            LET e == Entry(inodes', heap', fd)
            IN IF e.inuse THEN e.Fd = fd ELSE e.Fd = -1]_vars

\* C14 witness: the table has grown beyond the boot entries, entries have
\* been released and one of them is free with Fd = -1.
C14_Witness ==
    /\ Len(inodes) > 4
    /\ Cardinality(closed) >= 2
    /\ \E fd \in Free(inodes, heap) : Entry(inodes, heap, fd).Fd = -1
    /\ \E fd \in InUse(inodes, heap) : fd >= 4 /\ Entry(inodes, heap, fd).Fd = fd

\* C15: an fcntl request completes with result 0 whatever its arguments,
\* handles out of range or not in use included, and changes neither the
\* descriptor table nor a stream.
C15_FcntlIsNoOp ==
    [][(last'.op = "fcntl")
        => /\ last'.Ret = 0 /\ last'.wrote
           /\ last'.done = 1 /\ ~last'.panicked
           /\ last'.call = "none"
           /\ UNCHANGED <<inodes, heap, closed, live, files>>]_vars

\* C15 witness: an fcntl request with a negative handle has completed
\* with 0.
C15_Witness ==
    /\ last.op = "fcntl" /\ last.fd < 0
    /\ last.Ret = 0 /\ last.wrote /\ last.done = 1 /\ ~crashed

\* C16: an open request on a path that does not exist returns encoded
\* ENOENT and does not create the path, an fstatat request on the same path
\* issued next returns encoded ENOENT too, and both handlers hand any other
\* error of the mount root on unchanged.
C16_NotFoundTwice ==
    [][/\ (last'.op = "open" /\ last'.serr = "ErrNotExist")
            => /\ last'.Ret = Errno(ENOENT)
               /\ last'.done = 1
               /\ last'.path \notin files'
       /\ (/\ last.op = "open" /\ last.serr = "ErrNotExist"
           /\ last'.op = "fstatat" /\ last'.path = last.path)
            => /\ last'.serr = "ErrNotExist"
               /\ last'.Ret = last.Ret
               /\ last'.Ret = Errno(ENOENT)
               /\ last'.done = 1 /\ ~last'.buf
       /\ (last'.op \in {"open", "fstatat"}
           /\ last'.serr \notin {NIL, "ErrNotExist"})
            => last'.Ret = Error(last'.serr)]_vars

\* C16 witness: after an open request that failed, an fstatat request on
\* a path that does not exist has returned ENOENT.
C16_Witness ==
    /\ last.op = "fstatat" /\ last.serr = "ErrNotExist"
    /\ last.path \notin files
    /\ last.Ret = Errno(ENOENT)
    /\ Leaked(heap) # {}

\* C17: a write request on a descriptor whose stream has no write half
\* fails with the read-only error, a read request on a descriptor whose
\* stream has no read half fails with a write-only error of its own (not
\* the code of InvalidArgument); no byte is transferred and the descriptor
\* stays in use.
C17_WrongDirection ==
    /\ (/\ last.op = "write" /\ last.fd \in InUse(inodes, heap)
        /\ Entry(inodes, heap, last.fd).File.kind = "helper"
        /\ ~Entry(inodes, heap, last.fd).File.w)
        => (last.Ret = Errno(EROFS) /\ last.n = 0 /\ last.done = 1)
    /\ (/\ last.op = "read" /\ last.fd \in InUse(inodes, heap)
        /\ Entry(inodes, heap, last.fd).File.kind = "helper"
        /\ ~Entry(inodes, heap, last.fd).File.r)
        => /\ last.Ret \in ErrWords \ {Errno(EINVAL)}
           /\ last.n = 0 /\ last.done = 1

\* C18: in every state reachable from boot every entry in use has a bound
\* stream.
C18_InUseHasStream ==
    \A fd \in InUse(inodes, heap) : Entry(inodes, heap, fd).File # NoFile

C20_CountBeforeError ==
    (last.op \in {"read", "write"} /\ last.call # "none")
        => /\ last.done = 1
           /\ IF last.n # 0 THEN last.Ret = ToWord(last.n)
              ELSE IF last.serr = NIL \/ (last.op = "read" /\ last.serr = "EOF")
                   THEN last.Ret = 0
                   ELSE last.Ret = Error(last.serr)

\* C20 witness: a write request whose stream returned a non-zero count
\* together with an error has completed with the count.
C20_Witness ==
    /\ last.op = "write" /\ last.call = "Write"
    /\ last.n # 0 /\ last.serr = "EIO"
    /\ last.Ret = ToWord(last.n) /\ last.done = 1

====
